---- MODULE Spec2Model ----
(***************************************************************************)
(* A model of src/main.py: the DownloadWorker (Job Runner) that bridges    *)
(* the download engine's callbacks to Qt signals, and the MainWindow       *)
(* (Controller/View) that starts one worker thread per job and handles     *)
(* its signals on the UI thread.                                           *)
(*                                                                         *)
(* Text is modelled as a sequence of one-character strings, so that        *)
(* formatting (f-strings, str(), strip()) is computed and not assumed.     *)
(* An optional value (Python None or a value) is the empty sequence or a   *)
(* one-element sequence.                                                   *)
(***************************************************************************)
EXTENDS Integers, Sequences, FiniteSets, TLC

\* ------------------------------------------------------------------ bounds

\* Jobs the user may start in one run of the model.
MaxJobs == 2

\* Engine callbacks (progress hook or logger calls) during one download call.
MaxCallbacks == 2

\* Largest playlist index / count drawn for a callback payload.
MaxPlaylist == 5

\* ------------------------------------------------------- Python primitives

None == <<>>

Some(x) == <<x>>

IsNone(o) == o = <<>>

\* Python truthiness of an optional number: None and 0 are falsy.
Truthy(o) == o # <<>> /\ o[1] # 0

\* a or b, on optional numbers.
PyOr(a, b) == IF Truthy(a) THEN a ELSE b

\* int(n / m) for m > 0: true division, then truncation toward zero.
PyIntDiv(n, m) == IF n >= 0 THEN n \div m ELSE -((-n) \div m)

DigitChar(k) == <<"0", "1", "2", "3", "4", "5", "6", "7", "8", "9">>[k + 1]

RECURSIVE NatStr(_)
NatStr(n) == IF n < 10 THEN <<DigitChar(n)>> ELSE NatStr(n \div 10) \o <<DigitChar(n % 10)>>

\* str(n) / f"{n}" of an integer.
PyStr(n) == IF n < 0 THEN <<"-">> \o NatStr(-n) ELSE NatStr(n)

RECURSIVE LStrip(_)
LStrip(s) == IF s # <<>> /\ Head(s) = " " THEN LStrip(Tail(s)) ELSE s

RECURSIVE RStrip(_)
RStrip(s) == IF s # <<>> /\ s[Len(s)] = " " THEN RStrip(SubSeq(s, 1, Len(s) - 1)) ELSE s

\* str.strip(): leading and trailing whitespace removed.
Strip(s) == RStrip(LStrip(s))

\* ------------------------------------------- DownloadWorker._progress_hook

\* The "[index/count] " marker of a playlist item, or the empty string.
\* info is the payload's info_dict: None, or a record of two optional numbers.
PlaylistPrefix(info) ==
    LET i == IF IsNone(info) THEN None ELSE info[1].playlist_index
        n == IF IsNone(info) THEN None ELSE info[1].playlist_count
    IN  IF ~IsNone(i) /\ ~IsNone(n) /\ n[1] > 0
        THEN <<"[">> \o PyStr(i[1]) \o <<"/">> \o PyStr(n[1]) \o <<"]", " ">>
        ELSE <<>>

\* Percent with the two totals consulted in the wrong order.
PercentEstimateFirst(d) ==
    LET total == PyOr(PyOr(d.total_bytes_estimate, d.total_bytes), Some(0))
        downloaded == PyOr(d.downloaded_bytes, Some(0))
    IN  IF Truthy(total) THEN PyIntDiv(downloaded[1] * 100, total[1]) ELSE 0

\* percent of a "downloading" payload.
Percent(d) ==
    LET total == PyOr(PyOr(d.total_bytes, d.total_bytes_estimate), Some(0))
        downloaded == PyOr(d.downloaded_bytes, Some(0))
    IN  IF Truthy(total) THEN PyIntDiv(downloaded[1] * 100, total[1]) ELSE 0

\* The annotation of a "downloading" payload, before strip().
DownloadingDesc(d) ==
    PlaylistPrefix(d.info_dict)
    \o (IF Truthy(d.speed)
        THEN PyStr(PyIntDiv(d.speed[1], 1024)) \o <<" ", "K", "B", "/", "s", " ">>
        ELSE <<>>)
    \o (IF ~IsNone(d.eta)
        THEN <<"E", "T", "A", " ">> \o PyStr(d.eta[1]) \o <<"s">>
        ELSE <<>>)

\* FinishedDesc without the playlist marker.
FinishedDescNoPrefix(d) == <<"byeong", "hap", " ", "jung">>

\* The annotation of a "finished" payload, before strip(): the prefix and the
\* two-word Korean text "merging" (each Hangul syllable written in Latin letters).
FinishedDesc(d) == PlaylistPrefix(d.info_dict) \o <<"byeong", "hap", " ", "jung">>

\* The progress signals one call of the hook emits: none or one (percent, desc).
ProgressHook(d) ==
    IF d.status = "downloading"
    THEN <<[percent |-> Percent(d), desc |-> Strip(DownloadingDesc(d))]>>
    ELSE IF d.status = "finished"
    THEN <<[percent |-> 100, desc |-> Strip(FinishedDesc(d))]>>
    ELSE <<>>

\* ------------------------------------------------ callback payloads (inputs)

OptBytes == {None, Some(0), Some(3), Some(1000)}

OptDownloaded == {None, Some(0), Some(2), Some(500), Some(1500)}

OptSpeed == {None, Some(0), Some(1000), Some(2048)}

OptEta == {None, Some(0), Some(12)}

OptPlaylist == {None} \cup {Some(k) : k \in 0..MaxPlaylist}

InfoDicts == {None} \cup {Some([playlist_index |-> i, playlist_count |-> n]) : i \in OptPlaylist, n \in OptPlaylist}

Payloads ==
    [status : {"downloading", "finished", "error"},
     total_bytes : OptBytes, total_bytes_estimate : OptBytes,
     downloaded_bytes : OptDownloaded, speed : OptSpeed, eta : OptEta,
     info_dict : InfoDicts]

\* The payloads the engine delivers during a job of the window model: half of
\* a known total downloaded, and a stream that finished (merge pending).
JobPayloads ==
    {d \in Payloads :
        /\ d.speed = None /\ d.eta = None /\ d.info_dict = None
        /\ d.total_bytes_estimate = None
        /\ d.total_bytes = Some(1000) /\ d.downloaded_bytes = Some(500)
        /\ d.status \in {"downloading", "finished"}}

\* ------------------------------------------------------------ _Logger bridge

\* A message the engine hands to its logger: text, given as str or as bytes.
\* bytes.decode(errors="ignore") and str() both yield the text.
LoggerText(msg) == msg.text

\* The line each logger method forwards to the log signal. The tags "gyeong go"
\* (warning) and "o ryu" (error) are the source's Korean words in Latin letters.
LoggerLine(level, msg) ==
    IF level = "debug" THEN LoggerText(msg)
    ELSE IF level = "warning" THEN <<"gyeong", "go", ":", " ">> \o LoggerText(msg)
    ELSE <<"o", "ryu", ":", " ">> \o LoggerText(msg)

\* The logger calls the engine makes during a job of the window model.
LoggerCalls ==
    {[level |-> "debug", msg |-> [bytes |-> TRUE, text |-> <<"m">>]],
     [level |-> "error", msg |-> [bytes |-> FALSE, text |-> <<"x">>]]}

\* ------------------------------------------------------ DownloadWorker.run

\* How a call into the engine ends: it returns, or raises an Exception whose
\* str() is msg (possibly empty).
Returned == [kind |-> "return", msg |-> <<>>]

Raised(m) == [kind |-> "raise", msg |-> m]

ExcMessages == {<<>>, <<"e">>}

Outcomes == {Returned} \cup {Raised(m) : m \in ExcMessages}

\* RunTerminal with finished emitted after the try statement instead of inside it.
RunTerminalAlsoFinished(outcome) ==
    IF outcome.kind = "return"
    THEN <<[sig |-> "finished", value |-> 0, text |-> <<>>]>>
    ELSE <<[sig |-> "error", value |-> 0, text |-> outcome.msg],
           [sig |-> "finished", value |-> 0, text |-> <<>>]>>

\* RunTerminal with the failure signal emitted however the try block ended.
RunTerminalAlwaysError(outcome) == <<[sig |-> "error", value |-> 0, text |-> outcome.msg]>>

\* RunTerminal with a closing log line emitted after the terminal signal.
RunTerminalThenLog(outcome) ==
    IF outcome.kind = "return"
    THEN <<[sig |-> "finished", value |-> 0, text |-> <<>>],
           [sig |-> "log", value |-> 0, text |-> <<"e", "n", "d">>]>>
    ELSE <<[sig |-> "error", value |-> 0, text |-> outcome.msg],
           [sig |-> "log", value |-> 0, text |-> <<"e", "n", "d">>]>>

\* RunTerminal with the except clause reporting no message.
RunTerminalNoMessage(outcome) ==
    IF outcome.kind = "return"
    THEN <<[sig |-> "finished", value |-> 0, text |-> <<>>]>>
    ELSE <<[sig |-> "error", value |-> 0, text |-> <<>>]>>

\* The terminal signal run emits for the way its try block ended: finished after
\* the with block, error(str(e)) from the except clause.
RunTerminal(outcome) ==
    IF outcome.kind = "return"
    THEN <<[sig |-> "finished", value |-> 0, text |-> <<>>]>>
    ELSE <<[sig |-> "error", value |-> 0, text |-> outcome.msg]>>

\* RunNext with the engine call tried again after a failure.
RunNextRetry(outcome) == IF outcome.kind = "raise" THEN "started" ELSE "exec"

\* Where the worker thread goes after run emitted its terminal signal: run
\* returns, there is no loop around the try statement, and the thread's event
\* loop takes over.
RunNext(outcome) == "exec"

\* The first log line of run, "jeong bo su jip jung" (collecting information).
InfoLine == <<"jeong", "bo", " ", "su", "jip", " ", "jung">>

\* The two format strings of run, read as the engine reads them: "/" separates
\* the alternatives, in order of preference, and "+" joins the streams of one
\* alternative that are downloaded separately and merged afterwards.
MergeFormat == <<<<"bestvideo[ext=mp4]", "bestaudio[ext=m4a]">>, <<"best[ext=mp4]">>, <<"best">>>>

SingleFormat == <<<<"best[ext=mp4]">>, <<"best">>>>

\* YdlOpts with the merging configuration chosen whatever the flag says.
YdlOptsAlwaysMerge(ffmpeg) ==
    [ignoreerrors |-> TRUE, merge_output_format |-> Some("mp4"), format |-> MergeFormat]

\* The option dictionary handed to the engine (merge_output_format: None when
\* the key is absent).
YdlOpts(ffmpeg) ==
    IF ffmpeg
    THEN [ignoreerrors |-> TRUE, merge_output_format |-> Some("mp4"), format |-> MergeFormat]
    ELSE [ignoreerrors |-> TRUE, merge_output_format |-> None, format |-> SingleFormat]

\* ------------------------------------------------ signal/slot connections

\* Post with the newest signal put first.
PostFront(q, ev) == <<ev>> \o q

\* A signal emitted on the worker thread for a slot of the window (which lives
\* on the UI thread) is posted to the UI thread's event queue.
Post(q, ev) == Append(q, ev)

\* The event the UI thread's event loop dispatches next.
NextEvent(q) == Head(q)

RestEvents(q) == Tail(q)

\* ------------------------------------------------------- MainWindow inputs

\* What the URL field may hold: nothing, blanks, a URL (with a leading blank).
UrlTexts == {<<>>, <<" ">>, <<" ", "u">>}

\* What the folder field may hold. In the file system d is a directory, f a
\* regular file, and x does not exist.
PathTexts == {<<>>, <<" ">>, <<"d", " ">>, <<"f">>, <<"x">>}

FileKind(path) == IF path = <<"d">> THEN "dir" ELSE IF path = <<"f">> THEN "file" ELSE "absent"

\* os.path.isdir
IsDir(path) == FileKind(path) = "dir"

\* Validate with the folder only checked for existence.
ValidateExists(url, output_dir) ==
    IF url = <<>> THEN "enter_url"
    ELSE IF output_dir = <<>> THEN "choose_folder"
    ELSE IF FileKind(output_dir) = "absent" THEN "invalid_folder"
    ELSE "ok"

\* on_start's validation: the warning it shows, or "ok".
Validate(url, output_dir) ==
    IF url = <<>> THEN "enter_url"
    ELSE IF output_dir = <<>> THEN "choose_folder"
    ELSE IF ~IsDir(output_dir) THEN "invalid_folder"
    ELSE "ok"

\* QProgressBar.setValue on the range 0..100: a value outside it is ignored.
SetValue(current, value) == IF value \in 0..100 THEN value ELSE current

\* on_progress taking 100 percent for the end of the job.
StartBtnEnabledAtFull(enabled, value) == IF value = 100 THEN TRUE ELSE enabled

\* The start button after on_progress, which does not touch it.
StartBtnOnProgress(enabled, value) == enabled

\* on_progress's status text: "jin haeng ryul" (progress) value% [- desc].
ProgressText(value, desc) ==
    <<"jin", "haeng", "ryul", " ">> \o PyStr(value) \o <<"%">>
    \o (IF desc # <<>> THEN <<" ", "-", " ">> \o desc ELSE <<>>)

WaitingText == <<"dae", "gi", " ", "jung">>

StartingText == <<"si", "jak", " ", "jung">>

DoneText == <<"wan", "ryo">>

ErrorText == <<"o", "ryu">>

\* on_error's log line.
ErrorLine(message) == <<"o", "ryu", ":", " ">> \o message

\* Quit left out: the thread's event loop is never told to end.
QuitForgotten(q, j) == q

\* QThread.quit() on job j's thread, q being the quit requests so far.
Quit(q, j) == [q EXCEPT ![j] = TRUE]

\* A wait that does not wait.
WaitReturnsAtOnce(state) == TRUE

\* QThread.wait() returns once the thread has finished.
WaitReturns(state) == state = "finished"

NoJob == 0

\* The worker kept when the thread is dropped.
WorkerKept(w) == w

\* MainWindow.worker after the terminal handler's wait: None.
WorkerAfterWait(w) == NoJob

\* The start button left enabled by on_start.
StartBtnLeftEnabled == TRUE

\* The start button after on_start's setEnabled(False).
StartBtnOnStart == FALSE

Jobs == 1..MaxJobs

VARIABLES
    hook_d,         \* the payload of the callback under examination
    hook_pc,        \* "call" before the hook ran on hook_d, "done" after, "off" in the window model
    hook_out,       \* the signals the hook emitted for hook_d
    ffmpeg_available, \* MainWindow.ffmpeg_available
    start_btn,      \* whether the start button is enabled
    progress,       \* the progress bar's value (-1: none set yet)
    status_label,   \* the status text
    log_view,       \* the lines of the log view
    msgbox,         \* the warning dialog on_start is showing, "none" when none is open
    thread,         \* MainWindow.thread: NoJob (None) or the job whose QThread it is
    worker,         \* MainWindow.worker: NoJob (None) or the job whose worker it is
    ui_pc,          \* the UI thread: "loop" (event loop), "dialog" (inside
                    \* QMessageBox.warning), or "wait" (inside thread.wait())
    queue,          \* the UI thread's event queue of posted signals
    thr,            \* each job's thread: unborn, started, download, exec, finished
    quit_req,       \* whether quit() was called on each job's thread
    opts,           \* the options each job's run handed to the engine (None before)
    ncb,            \* callbacks the engine made in each job's download call
    next_job,       \* the number of the next job on_start will create
    engine_calls,   \* history: calls of ydl.download per job
    raised,         \* history: the exception message each job's engine call raised
    terminals,      \* history: the terminal signals each job's run emitted
    emitted_n,      \* history: the number of signals each job's worker emitted
    handled_last,   \* history: the emission number of the job's signal handled last
    delivered,      \* history: terminal signals of each job handled by the window
    enables         \* history: setEnabled(True) calls made for each job's signals

hookvars == <<hook_d, hook_pc, hook_out>>

uivars == <<ffmpeg_available, start_btn, progress, status_label, log_view, msgbox, thread, worker, ui_pc>>

thrvars == <<thr, quit_req, opts, ncb, engine_calls, raised, terminals>>

histvars == <<handled_last, delivered, enables>>

vars == <<hookvars, uivars, queue, thrvars, next_job, emitted_n, histvars>>

\* ---------------------------------------------------------------- initial

InitWindow ==
    /\ ffmpeg_available \in BOOLEAN
    /\ start_btn = TRUE
    /\ progress = -1
    /\ status_label = WaitingText
    /\ log_view = <<>>
    /\ msgbox = "none"
    /\ thread = NoJob
    /\ worker = NoJob
    /\ ui_pc = "loop"
    /\ queue = <<>>
    /\ thr = [j \in Jobs |-> "unborn"]
    /\ quit_req = [j \in Jobs |-> FALSE]
    /\ opts = [j \in Jobs |-> None]
    /\ ncb = [j \in Jobs |-> 0]
    /\ next_job = 1
    /\ engine_calls = [j \in Jobs |-> 0]
    /\ raised = [j \in Jobs |-> None]
    /\ terminals = [j \in Jobs |-> <<>>]
    /\ emitted_n = [j \in Jobs |-> 0]
    /\ handled_last = [j \in Jobs |-> 0]
    /\ delivered = [j \in Jobs |-> 0]
    /\ enables = [j \in Jobs |-> 0]

Init ==
    /\ InitWindow
    /\ hook_d = CHOOSE d \in JobPayloads : d.status = "finished"
    /\ hook_pc = "off"
    /\ hook_out = <<>>

InitHook ==
    /\ InitWindow
    /\ hook_d \in Payloads
    /\ hook_pc = "call"
    /\ hook_out = <<>>

\* ------------------------------------------------------- the worker thread

RECURSIVE PostAll(_, _, _, _)
\* q with the signals sigs of job j posted in order, numbered from n + 1.
PostAll(q, j, n, sigs) ==
    IF sigs = <<>> THEN q
    ELSE PostAll(Post(q, [sig |-> Head(sigs).sig, value |-> Head(sigs).value,
                          text |-> Head(sigs).text, job |-> j, n |-> n + 1]),
                 j, n + 1, Tail(sigs))

\* Job j's worker emits sigs.
Emit(j, sigs) ==
    /\ queue' = PostAll(queue, j, emitted_n[j], sigs)
    /\ emitted_n' = [emitted_n EXCEPT ![j] = @ + Len(sigs)]

TerminalSigs(sigs) == SelectSeq(sigs, LAMBDA s : s.sig \in {"finished", "error"})

\* run, up to the call of ydl.download: the options are built and the engine
\* object constructed (c: how the constructor ends), then the first log line.
RunBegin(j, c) ==
    /\ thr[j] = "started"
    /\ opts' = [opts EXCEPT ![j] = Some(YdlOpts(ffmpeg_available))]
    /\ IF c.kind = "return"
       THEN /\ Emit(j, <<[sig |-> "log", value |-> 0, text |-> InfoLine]>>)
            /\ thr' = [thr EXCEPT ![j] = "download"]
            /\ engine_calls' = [engine_calls EXCEPT ![j] = @ + 1]
            /\ UNCHANGED <<raised, terminals>>
       ELSE /\ Emit(j, RunTerminal(c))
            /\ thr' = [thr EXCEPT ![j] = RunNext(c)]
            /\ raised' = [raised EXCEPT ![j] = Some(c.msg)]
            /\ terminals' = [terminals EXCEPT ![j] = @ \o TerminalSigs(RunTerminal(c))]
            /\ UNCHANGED engine_calls
    /\ UNCHANGED <<hookvars, uivars, quit_req, ncb, next_job, histvars>>

\* The engine calls the progress hook with payload d.
EngineProgress(j, d) ==
    /\ thr[j] = "download"
    /\ ncb[j] < MaxCallbacks
    /\ ncb' = [ncb EXCEPT ![j] = @ + 1]
    /\ Emit(j, [k \in 1..Len(ProgressHook(d)) |->
                   [sig |-> "progress", value |-> ProgressHook(d)[k].percent,
                    text |-> ProgressHook(d)[k].desc]])
    /\ UNCHANGED <<hookvars, uivars, thr, quit_req, opts, engine_calls, raised, terminals, next_job, histvars>>

\* The engine calls its logger.
EngineLog(j, call) ==
    /\ thr[j] = "download"
    /\ ncb[j] < MaxCallbacks
    /\ ncb' = [ncb EXCEPT ![j] = @ + 1]
    /\ Emit(j, <<[sig |-> "log", value |-> 0, text |-> LoggerLine(call.level, call.msg)]>>)
    /\ UNCHANGED <<hookvars, uivars, thr, quit_req, opts, engine_calls, raised, terminals, next_job, histvars>>

\* ydl.download ends (o: it returns, or raises): run emits its terminal signal
\* and returns, and the thread enters its event loop.
EngineEnd(j, o) ==
    /\ thr[j] = "download"
    /\ Emit(j, RunTerminal(o))
    /\ thr' = [thr EXCEPT ![j] = RunNext(o)]
    /\ raised' = [raised EXCEPT ![j] = IF o.kind = "raise" THEN Some(o.msg) ELSE None]
    /\ terminals' = [terminals EXCEPT ![j] = @ \o TerminalSigs(RunTerminal(o))]
    /\ UNCHANGED <<hookvars, uivars, quit_req, opts, ncb, engine_calls, next_job, histvars>>

\* The thread's event loop ends once quit() was called, and the thread finishes.
ThreadExit(j) ==
    /\ thr[j] = "exec"
    /\ quit_req[j]
    /\ thr' = [thr EXCEPT ![j] = "finished"]
    /\ UNCHANGED <<hookvars, uivars, queue, quit_req, opts, ncb, engine_calls, raised, terminals, next_job, emitted_n, histvars>>

\* ----------------------------------------------------------- the UI thread

\* A click on the start button (delivered only while the button is enabled),
\* with the two fields holding url_text and path_text. On invalid input the
\* handler opens a modal warning and returns when the user closes it
\* (WarningClosed); no signal is pending then, so none is dispatched meanwhile.
on_start(url_text, path_text) ==
    /\ ui_pc = "loop"
    /\ start_btn
    /\ LET v == Validate(Strip(url_text), Strip(path_text))
       IN  IF v # "ok"
           THEN /\ msgbox' = v
                /\ ui_pc' = "dialog"
                /\ UNCHANGED <<start_btn, progress, status_label, log_view, thread, worker, thr, next_job>>
           ELSE /\ next_job <= MaxJobs
                /\ start_btn' = StartBtnOnStart
                /\ progress' = SetValue(progress, 0)
                /\ status_label' = StartingText
                /\ log_view' = <<>>
                /\ thread' = next_job
                /\ worker' = next_job
                /\ thr' = [thr EXCEPT ![next_job] = "started"]
                /\ next_job' = next_job + 1
                /\ UNCHANGED <<msgbox, ui_pc>>
    /\ UNCHANGED <<hookvars, ffmpeg_available, queue, quit_req, opts, ncb, engine_calls, raised, terminals, emitted_n, histvars>>

\* The user closes the warning: QMessageBox.warning returns, and so does on_start.
WarningClosed ==
    /\ ui_pc = "dialog"
    /\ msgbox' = "none"
    /\ ui_pc' = "loop"
    /\ UNCHANGED <<hookvars, ffmpeg_available, start_btn, progress, status_label, log_view, thread, worker, queue, thrvars, next_job, emitted_n, histvars>>

\* The event loop takes the next posted signal, ev, off the queue.
Dispatch(ev) ==
    /\ queue' = RestEvents(queue)
    /\ handled_last' = [handled_last EXCEPT ![ev.job] = ev.n]

\* Whether the event loop is about to dispatch a signal of kind sig.
Dispatching(sig) == ui_pc = "loop" /\ queue # <<>> /\ NextEvent(queue).sig = sig

on_progress ==
    /\ Dispatching("progress")
    /\ LET ev == NextEvent(queue)
       IN  /\ Dispatch(ev)
           /\ progress' = SetValue(progress, ev.value)
           /\ status_label' = ProgressText(ev.value, ev.text)
           /\ start_btn' = StartBtnOnProgress(start_btn, ev.value)
    /\ UNCHANGED <<hookvars, ffmpeg_available, log_view, msgbox, thread, worker, ui_pc, thrvars, next_job, emitted_n, delivered, enables>>

append_log ==
    /\ Dispatching("log")
    /\ LET ev == NextEvent(queue)
       IN  /\ Dispatch(ev)
           /\ log_view' = Append(log_view, ev.text)
    /\ UNCHANGED <<hookvars, ffmpeg_available, start_btn, progress, status_label, msgbox, thread, worker, ui_pc, thrvars, next_job, emitted_n, delivered, enables>>

\* What on_finished and on_error share: the button is enabled again, quit() is
\* called on the current thread, if any, and the handler enters thread.wait().
Terminal(ev, line, text) ==
    /\ Dispatch(ev)
    /\ log_view' = Append(log_view, line)
    /\ status_label' = text
    /\ start_btn' = TRUE
    /\ delivered' = [delivered EXCEPT ![ev.job] = @ + 1]
    /\ enables' = [enables EXCEPT ![ev.job] = @ + 1]
    /\ IF thread # NoJob
       THEN /\ quit_req' = Quit(quit_req, thread)
            /\ ui_pc' = "wait"
       ELSE UNCHANGED <<quit_req, ui_pc>>
    /\ UNCHANGED <<hookvars, ffmpeg_available, progress, msgbox, thread, worker, thr, opts, ncb, engine_calls, raised, terminals, next_job, emitted_n>>

on_finished ==
    /\ Dispatching("finished")
    /\ Terminal(NextEvent(queue), DoneText, DoneText)

on_error ==
    /\ Dispatching("error")
    /\ Terminal(NextEvent(queue), ErrorLine(NextEvent(queue).text), ErrorText)

\* thread.wait() returns: the handler drops the thread and the worker.
WaitDone ==
    /\ ui_pc = "wait"
    /\ WaitReturns(thr[thread])
    /\ thread' = NoJob
    /\ worker' = WorkerAfterWait(worker)
    /\ ui_pc' = "loop"
    /\ UNCHANGED <<hookvars, ffmpeg_available, start_btn, progress, status_label, log_view, msgbox, queue, thrvars, next_job, emitted_n, histvars>>

Next ==
    \/ \E u \in UrlTexts, p \in PathTexts : on_start(u, p)
    \/ WarningClosed
    \/ \E j \in Jobs, c \in Outcomes : RunBegin(j, c)
    \/ \E j \in Jobs, d \in JobPayloads : EngineProgress(j, d)
    \/ \E j \in Jobs, call \in LoggerCalls : EngineLog(j, call)
    \/ \E j \in Jobs, o \in Outcomes : EngineEnd(j, o)
    \/ \E j \in Jobs : ThreadExit(j)
    \/ on_progress
    \/ append_log
    \/ on_finished
    \/ on_error
    \/ WaitDone

Spec == Init /\ [][Next]_vars

\* A step of the UI thread that needs no user: a posted signal is dispatched,
\* or thread.wait() returns.
UiStep == on_progress \/ append_log \/ on_finished \/ on_error \/ WaitDone

\* The window under fair scheduling: the UI thread's event loop keeps running
\* and a worker thread told to quit does so. Nothing is assumed of the user
\* (clicks, closing a warning) nor of the engine (callbacks, the call's end).
FairSpec == Spec /\ WF_vars(UiStep) /\ \A j \in Jobs : WF_vars(ThreadExit(j))

\* --------------------------------------------- the progress hook on its own

HookCall ==
    /\ hook_pc = "call"
    /\ hook_out' = ProgressHook(hook_d)
    /\ hook_pc' = "done"
    /\ UNCHANGED <<hook_d, uivars, queue, thrvars, next_job, emitted_n, histvars>>

NextHook == HookCall

SpecHook == InitHook /\ [][NextHook]_vars

\* ------------------------------------------------------------------ claims

Running(j) == thr[j] \in {"started", "download", "exec"}

RunEnded(j) == thr[j] \in {"exec", "finished"}

\* C1: every job's run emits exactly one terminal signal (finished or error):
\* none before the engine call ended, one once it returned or raised, never
\* two; and the window is handed no more terminal signals than were emitted.
ExactlyOneTerminal ==
    \A j \in Jobs :
        /\ Len(terminals[j]) <= 1
        /\ RunEnded(j) <=> Len(terminals[j]) = 1
        /\ delivered[j] <= Len(terminals[j])

\* Both ways a run ends have happened: job 1 returned, job 2 raised.
ExactlyOneTerminalWitness ==
    /\ thr[1] = "finished" /\ raised[1] = None /\ terminals[1][1].sig = "finished"
    /\ RunEnded(2) /\ raised[2] # None /\ terminals[2][1].sig = "error"

\* C2: at most one worker thread is running in any reachable state, and while
\* the window can accept a start (event loop idle, button enabled) none is.
AtMostOneJob ==
    /\ Cardinality({j \in Jobs : Running(j)}) <= 1
    /\ (ui_pc = "loop" /\ start_btn) => {j \in Jobs : Running(j)} = {}

\* A second job is downloading after the first one's thread has finished.
AtMostOneJobWitness == thr[1] = "finished" /\ thr[2] = "download" /\ queue # <<>>

\* C3: a started job has the start button disabled until its terminal signal
\* is handled, and the button is enabled exactly once for it, by that handler.
ReenabledOnce ==
    \A j \in Jobs :
        thr[j] # "unborn" =>
            /\ enables[j] <= 1
            /\ delivered[j] = 0 => (~start_btn /\ enables[j] = 0)
            /\ delivered[j] >= 1 => enables[j] = 1

\* Job 1 was re-enabled once, and job 2 is running with the button disabled.
ReenabledOnceWitness == enables[1] = 1 /\ thr[2] = "download" /\ ~start_btn

\* The inputs on_start has to reject: no URL, no folder, or a folder text that
\* names no existing directory.
InvalidInput(url_text, path_text) ==
    \/ Strip(url_text) = <<>>
    \/ Strip(path_text) = <<>>
    \/ FileKind(Strip(path_text)) \in {"file", "absent"}

\* C4: a click on start with invalid input creates no thread and no worker and
\* leaves the job handle, the start button, the progress bar and the log alone.
RejectedStartChangesNothing ==
    [][\A u \in UrlTexts, p \in PathTexts :
          (InvalidInput(u, p) /\ on_start(u, p)) =>
              UNCHANGED <<thread, worker, thr, next_job, start_btn, progress, status_label, log_view>>]_vars

\* A folder that is a regular file was rejected after a job had run.
RejectedStartWitness == msgbox = "invalid_folder" /\ next_job = 2 /\ thr[1] = "finished" /\ thread = NoJob

\* C5: a job whose engine call raised emitted the failure signal with the
\* exception's message and no success signal; once that signal is handled (and
\* until the next start) the button is enabled and the log ends with the message.
FailureReported ==
    \A j \in Jobs :
        raised[j] # None =>
            /\ terminals[j] = <<[sig |-> "error", value |-> 0, text |-> raised[j][1]]>>
            /\ (delivered[j] >= 1 /\ next_job = j + 1) =>
                   /\ start_btn
                   /\ status_label = ErrorText
                   /\ log_view # <<>>
                   /\ log_view[Len(log_view)] = ErrorLine(raised[j][1])

\* The engine raised with message "e" in job 1 and the window handled it.
FailureReportedWitness ==
    /\ raised[1] = Some(<<"e">>) /\ delivered[1] = 1 /\ next_job = 2
    /\ ui_pc = "loop" /\ start_btn

\* C6: the UI thread never blocks: no handler of it waits on the worker thread.
UiNeverBlocks == ui_pc # "wait"

\* C7: signals of one job are handled in the order they were emitted: every
\* signal still waiting was emitted after the job's signal handled last.
HandledInEmissionOrder ==
    \A k \in DOMAIN queue : queue[k].n > handled_last[queue[k].job]

\* Two signals of job 1 were handled while two more were waiting.
HandledInOrderWitness == handled_last[1] = 2 /\ Len(queue) >= 2

HookDone(status) == hook_pc = "done" /\ hook_d.status = status

\* C8: every progress signal the hook emits carries a percent in 0..100.
PercentInRange ==
    hook_pc = "done" => \A k \in DOMAIN hook_out : hook_out[k].percent \in 0..100

\* q is floor(a / b), for b > 0.
IsFloor(q, a, b) == q * b <= a /\ a < (q + 1) * b

\* C9: for a "downloading" callback the percent is floor(downloaded*100/total),
\* the total being total_bytes when known, else total_bytes_estimate; it is 0
\* when neither is present; total 1000 and downloaded 500 give 50.
PercentIsFloor ==
    HookDone("downloading") =>
        LET tb == hook_d.total_bytes
            te == hook_d.total_bytes_estimate
            dl == IF hook_d.downloaded_bytes = None THEN 0 ELSE hook_d.downloaded_bytes[1]
            pc == hook_out[1].percent
        IN  /\ Len(hook_out) = 1
            /\ (tb # None /\ tb[1] > 0) => IsFloor(pc, dl * 100, tb[1])
            /\ (~(tb # None /\ tb[1] > 0) /\ te # None /\ te[1] > 0) => IsFloor(pc, dl * 100, te[1])
            /\ (tb = None /\ te = None) => pc = 0
            /\ (tb = Some(1000) /\ dl = 500) => pc = 50

\* Half of a known total was reported as 50 although the estimate differs.
PercentIsFloorWitness ==
    /\ HookDone("downloading")
    /\ hook_d.total_bytes = Some(1000) /\ hook_d.total_bytes_estimate = Some(3)
    /\ hook_d.downloaded_bytes = Some(500)
    /\ hook_out[1].percent = 50

StartsWith(s, pre) == Len(s) >= Len(pre) /\ SubSeq(s, 1, Len(pre)) = pre

\* C10: with playlist_index i and playlist_count n (n >= 1) the annotation of a
\* "downloading" and of a "finished" callback starts with [i/n], index 2 of 5
\* giving [2/5]; a callback without playlist metadata has no such marker.
PlaylistMarker ==
    (HookDone("downloading") \/ HookDone("finished")) =>
        LET info == hook_d.info_dict
            desc == hook_out[1].desc
        IN  /\ (info # None /\ info[1].playlist_index # None
                  /\ info[1].playlist_count # None /\ info[1].playlist_count[1] >= 1) =>
                   StartsWith(desc, <<"[">> \o PyStr(info[1].playlist_index[1]) \o <<"/">>
                                    \o PyStr(info[1].playlist_count[1]) \o <<"]">>)
            /\ (info = Some([playlist_index |-> Some(2), playlist_count |-> Some(5)])) =>
                   StartsWith(desc, <<"[", "2", "/", "5", "]">>)
            /\ (info = None \/ info = Some([playlist_index |-> None, playlist_count |-> None])) =>
                   ~StartsWith(desc, <<"[">>)

\* A stream of item 2 of 5 finished: the marker precedes the merge text.
PlaylistMarkerWitness ==
    /\ HookDone("finished")
    /\ hook_out[1].desc = <<"[", "2", "/", "5", "]", " ", "byeong", "hap", " ", "jung">>

\* Whether a format selection asks, in some alternative, for separate streams.
AsksSeparateStreams(format) == \E k \in DOMAIN format : Len(format[k]) > 1

\* C11: the options a run hands to the engine ask for separate video and audio
\* streams, and name a target container, exactly when ffmpeg is available;
\* without it every alternative is a single combined stream.
FormatFollowsMergeCapability ==
    \A j \in Jobs :
        opts[j] # None =>
            /\ AsksSeparateStreams(opts[j][1].format) <=> ffmpeg_available
            /\ opts[j][1].merge_output_format # None <=> ffmpeg_available
            /\ ~ffmpeg_available => \A k \in DOMAIN opts[j][1].format : Len(opts[j][1].format[k]) = 1

\* Without ffmpeg a download ran with the single-stream selection.
FormatWithoutMergeWitness ==
    /\ ~ffmpeg_available /\ thr[1] = "download" /\ engine_calls[1] = 1
    /\ opts[1] = Some([ignoreerrors |-> TRUE, merge_output_format |-> None, format |-> SingleFormat])

\* The log lines by which the engine's logger reports the failure of an item.
ItemErrorLines == {LoggerLine(c.level, c.msg) : c \in {x \in LoggerCalls : x.level = "error"}}

\* Job j, the latest one, had an item error reported: its line waits in the
\* queue or stands in the log view (which holds the latest job's lines only).
ItemErrorLogged(j) ==
    \/ \E k \in DOMAIN queue :
           queue[k].job = j /\ queue[k].sig = "log" /\ queue[k].text \in ItemErrorLines
    \/ \E k \in DOMAIN log_view : log_view[k] \in ItemErrorLines

\* C12: a job whose engine reported item errors through its logger and then
\* returned from the download call ends with the finished signal, never with
\* error; once handled, the window shows completion below the error lines.
ItemErrorsAreNotFailure ==
    \A j \in Jobs :
        (next_job = j + 1 /\ ItemErrorLogged(j) /\ RunEnded(j) /\ raised[j] = None) =>
            /\ terminals[j] = <<[sig |-> "finished", value |-> 0, text |-> <<>>]>>
            /\ \A k \in DOMAIN queue : queue[k].sig # "error"
            /\ delivered[j] >= 1 =>
                   /\ status_label = DoneText
                   /\ log_view[Len(log_view)] = DoneText
                   /\ start_btn

\* Two item errors were logged, the call returned, and the job ended as done.
ItemErrorsWitness ==
    /\ delivered[1] = 1 /\ raised[1] = None /\ next_job = 2 /\ ui_pc = "loop"
    /\ log_view = <<InfoLine, <<"o", "ryu", ":", " ", "x">>, <<"o", "ryu", ":", " ", "x">>, DoneText>>
    /\ status_label = DoneText

\* C13, as stated: every job whose run ended called ydl.download exactly once.
EngineCalledExactlyOnce == \A j \in Jobs : RunEnded(j) => engine_calls[j] = 1

\* C13, amended: ydl.download is called at most once per job, and exactly once
\* unless constructing the engine object raised before the call (the job then
\* fails with that error as its only signal); once a job emitted its terminal
\* signal no further engine call is made for it, and a new worker thread only
\* comes from a click on the start button.
NoRetry ==
    /\ [](\A j \in Jobs :
            /\ engine_calls[j] <= 1
            /\ thr[j] = "download" => engine_calls[j] = 1
            /\ (RunEnded(j) /\ engine_calls[j] = 0) => (raised[j] # None /\ emitted_n[j] = 1)
            /\ terminals[j] # <<>> => RunEnded(j))
    /\ [][\A j \in Jobs :
            /\ terminals[j] # <<>> => engine_calls'[j] = engine_calls[j]
            /\ (thr[j] = "unborn" /\ thr'[j] # "unborn") =>
                   \E u \in UrlTexts, p \in PathTexts : on_start(u, p)]_vars

\* Job 1 failed in the download call, was handled, and nothing runs: the next
\* job has not been created.
NoRetryWitness ==
    /\ raised[1] # None /\ engine_calls[1] = 1 /\ delivered[1] = 1
    /\ thr[1] = "finished" /\ thr[2] = "unborn" /\ ui_pc = "loop" /\ queue = <<>>

\* The window is ready again after job j: its terminal signal was handled, its
\* thread has finished and was dropped, and the start button is enabled.
ReadyAfter(j) ==
    /\ delivered[j] = 1 /\ thr[j] = "finished"
    /\ thread = NoJob /\ worker = NoJob /\ start_btn /\ ui_pc = "loop"

\* C14: once the engine call of the current job has returned or raised, the
\* terminal handler eventually completes, its wait for the worker thread
\* included, and the window is ready again (fair UI and worker threads).
BackToReady == \A j \in Jobs : (RunEnded(j) /\ thread = j) ~> ReadyAfter(j)

\* The second job's engine call raised and the window is ready after it.
BackToReadyWitness == raised[2] # None /\ engine_calls[2] = 1 /\ ReadyAfter(2)

\* The annotation of a stream that finished and awaits merging.
MergeText == <<"byeong", "hap", " ", "jung">>

\* What the hook emits for the "finished" payloads of a job.
FinishedGivesMergeSignal ==
    \A d \in JobPayloads :
        d.status = "finished" => ProgressHook(d) = <<[percent |-> 100, desc |-> MergeText]>>

\* C15: a "finished" callback only yields the progress signal (100, merge
\* pending): while that signal waits, and while the window shows it, the job is
\* still the active one, its thread runs, no terminal signal of it was handled
\* and the start button is disabled.
FinishedIsNotTerminal ==
    /\ FinishedGivesMergeSignal
    /\ \A k \in DOMAIN queue :
           (queue[k].sig = "progress" /\ queue[k].text = MergeText) =>
               /\ queue[k].value = 100
               /\ thread = queue[k].job /\ delivered[thread] = 0 /\ ~start_btn
    /\ status_label = ProgressText(100, MergeText) =>
           /\ thread \in Jobs /\ worker = thread /\ Running(thread)
           /\ delivered[thread] = 0 /\ ~start_btn /\ progress = 100

\* After a stream finished (100) the engine reported a lower percent, before
\* any terminal signal of the job.
LowerPercentFollowsWitness ==
    /\ Len(queue) >= 2 /\ terminals[1] = <<>> /\ thr[1] = "download"
    /\ queue[Len(queue) - 1].sig = "progress" /\ queue[Len(queue) - 1].text = MergeText
    /\ queue[Len(queue) - 1].value = 100
    /\ queue[Len(queue)].sig = "progress" /\ queue[Len(queue)].value = 50

\* C16: whenever the UI thread is back in its event loop the start button is
\* enabled exactly if the window holds no job (thread and worker are None);
\* thread and worker are set and cleared together; and a job the window no
\* longer holds has had its terminal signal handled and its thread finished,
\* so that it never runs again.
ButtonMirrorsJobHandle ==
    /\ worker = thread
    /\ ui_pc = "loop" => (start_btn <=> (thread = NoJob /\ worker = NoJob))
    /\ \A j \in Jobs :
           (thr[j] # "unborn" /\ thread # j) =>
               (thr[j] = "finished" /\ delivered[j] = 1 /\ worker # j)

\* Job 1 was released and job 2 is held, its run over and its terminal signal
\* not yet handled: the button is still disabled.
ButtonMirrorsWitness ==
    /\ thr[1] = "finished" /\ thread = 2 /\ worker = 2 /\ thr[2] = "exec"
    /\ ui_pc = "loop" /\ ~start_btn /\ delivered[2] = 0

\* What the window shows after handling terminal signal t: the status text and
\* the last log line.
TerminalDisplay(t) ==
    IF t.sig = "finished"
    THEN [status |-> DoneText, line |-> DoneText]
    ELSE [status |-> ErrorText, line |-> ErrorLine(t.text)]

\* C17: the terminal signal is the last signal of its job the window handles:
\* once it is handled no signal of the job waits and all it emitted were
\* handled; until the next start the status text and the last log line are
\* those of the terminal handler; and every waiting signal belongs to the job
\* the window holds, so that after a start the cleared log only takes lines of
\* the new job.
TerminalIsLast ==
    /\ \A k \in DOMAIN queue : queue[k].job = thread
    /\ \A j \in Jobs :
           delivered[j] >= 1 =>
               /\ \A k \in DOMAIN queue : queue[k].job # j
               /\ handled_last[j] = emitted_n[j]
               /\ next_job = j + 1 =>
                      /\ status_label = TerminalDisplay(terminals[j][1]).status
                      /\ log_view # <<>>
                      /\ log_view[Len(log_view)] = TerminalDisplay(terminals[j][1]).line
    /\ (thread # NoJob /\ delivered[thread] = 0) => Len(log_view) <= handled_last[thread]

\* Job 1 ended with an error; job 2 was started and the log view holds the two
\* lines of job 2 handled so far, and nothing of job 1.
TerminalIsLastWitness ==
    /\ delivered[1] = 1 /\ terminals[1][1].sig = "error"
    /\ thread = 2 /\ handled_last[2] = 2 /\ delivered[2] = 0
    /\ log_view = <<InfoLine, <<"m">>>>

====
